---------------------------- MODULE Spec2Model ----------------------------
(***************************************************************************)
(* KEVDashboard (src/main.py): a CSV of known exploited vulnerabilities is *)
(* loaded once at import time, filter options are derived from it, and the *)
(* Dash callback update_graph turns a filter selection into a monthly      *)
(* count series.                                                           *)
(*                                                                         *)
(* Text is modelled as a sequence of one-character strings so that strip,  *)
(* lower, split and the substring test are computed and not assumed.  A    *)
(* cell of the frame is [na, s]: na is pandas' NaN (a missing value).      *)
(***************************************************************************)
EXTENDS Integers, Sequences, FiniteSets, TLC

VARIABLES csv, df, years, vendors, cwes, concurrent, pc, args, filtered_df, result

vars == <<csv, df, years, vendors, cwes, concurrent, pc, args, filtered_df, result>>

(***************************************************************************)
(* Bounds of the model.                                                    *)
(***************************************************************************)
MaxRows == 2
NThreads == 2

Threads == 1..NThreads

(***************************************************************************)
(* Python text primitives.                                                 *)
(***************************************************************************)
\* The characters of the model in code point order (Python compares str by code point).
Ascii == <<"\t", "\n", "\f", "\r", " ", ",", "-",
           "0", "1", "2", "3", "4", "5", "6", "7", "8", "9",
           "A", "B", "C", "D", "E", "F", "G", "H", "I", "J", "K", "L", "M",
           "N", "O", "P", "Q", "R", "S", "T", "U", "V", "W", "X", "Y", "Z",
           "a", "b", "c", "d", "e", "f", "g", "h", "i", "j", "k", "l", "m",
           "n", "o", "p", "q", "r", "s", "t", "u", "v", "w", "x", "y", "z">>

OrdTable == [c \in {Ascii[i] : i \in 1..Len(Ascii)} |-> CHOOSE i \in 1..Len(Ascii) : Ascii[i] = c]

\* The rank of a character in code point order.
Ord(c) == OrdTable[c]

IsSpace(c) == c \in {" ", "\t", "\n", "\r", "\f"}

IsUpper(c) == Ord(c) >= Ord("A") /\ Ord(c) <= Ord("Z")

IsDigit(c) == Ord(c) >= Ord("0") /\ Ord(c) <= Ord("9")

\* str.lower() on one character.
LowerChar(c) == IF IsUpper(c) THEN Ascii[Ord(c) + (Ord("a") - Ord("A"))] ELSE c

\* str.lower()
Lower(s) == [i \in 1..Len(s) |-> LowerChar(s[i])]

RECURSIVE LStrip(_)
LStrip(s) == IF s # <<>> /\ IsSpace(Head(s)) THEN LStrip(Tail(s)) ELSE s

RECURSIVE RStrip(_)
RStrip(s) == IF s # <<>> /\ IsSpace(s[Len(s)]) THEN RStrip(SubSeq(s, 1, Len(s) - 1)) ELSE s

\* str.strip()
Strip(s) == RStrip(LStrip(s))

\* needle in hay  (Python's substring test on str)
Contains(hay, needle) ==
    \E i \in 0..(Len(hay) - Len(needle)) : SubSeq(hay, i + 1, i + Len(needle)) = needle

\* s.split(','), a list of the pieces between commas (one piece for a text without comma).
RECURSIVE SplitFrom(_, _, _)
SplitFrom(s, i, cur) ==
    IF i > Len(s) THEN <<cur>>
    ELSE IF s[i] = "," THEN <<cur>> \o SplitFrom(s, i + 1, <<>>)
    ELSE SplitFrom(s, i + 1, Append(cur, s[i]))

Split(s) == SplitFrom(s, 1, <<>>)

\* a < b for two str, as sorted() compares them.
RECURSIVE StrLess(_, _)
StrLess(a, b) ==
    IF b = <<>> THEN FALSE
    ELSE IF a = <<>> THEN TRUE
    ELSE IF Head(a) = Head(b) THEN StrLess(Tail(a), Tail(b))
    ELSE Ord(Head(a)) < Ord(Head(b))

\* sorted(set) for a set of str.
RECURSIVE SortedStr(_)
SortedStr(S) ==
    IF S = {} THEN <<>>
    ELSE LET m == CHOOSE x \in S : \A y \in S \ {x} : StrLess(x, y)
         IN <<m>> \o SortedStr(S \ {m})

\* sorted(set) for a set of int.
RECURSIVE SortedInt(_)
SortedInt(S) ==
    IF S = {} THEN <<>>
    ELSE LET m == CHOOSE x \in S : \A y \in S : x <= y
         IN <<m>> \o SortedInt(S \ {m})

Range(f) == {f[i] : i \in DOMAIN f}

(***************************************************************************)
(* Cells of the frame.                                                     *)
(***************************************************************************)
NaN == [na |-> TRUE, s |-> <<>>]

Text(s) == [na |-> FALSE, s |-> s]

\* str(x) of a cell: the text itself, and "nan" for the float NaN.
Str(x) == IF x.na THEN <<"n", "a", "n">> ELSE x.s


(***************************************************************************)
(* The feed as read_csv returns it (line 7): one row per CSV line, every   *)
(* column a cell.  Rows are drawn from a catalogue of row kinds.           *)
(***************************************************************************)
Acme == <<"A", "c", "m", "e">>
Globex == <<"G", "l", "o", "b", "e", "x">>
Initech == <<"I", "n", "i", "t", "e", "c", "h">>

Row(d, v, c, k) ==
    [dateAdded |-> d, vendorProject |-> v, cwes |-> c, knownRansomwareCampaignUse |-> k]

Catalogue == <<
    Row(Text(<<"2", "0", "2", "3", "-", "0", "1", "-", "1", "5">>), Text(Acme),
        Text(<<"C", "W", "E", "-", "7", "9">>), Text(<<"k", "n", "o", "w", "n">>)),
    Row(Text(<<"2", "0", "2", "3", "-", "0", "1", "-", "2", "0">>), Text(Acme),
        Text(<<"C", "W", "E", "-", "8", "9">>), NaN),
    Row(Text(<<"2", "0", "2", "4", "-", "0", "1", "-", "0", "5">>), NaN,
        Text(<<"C", "W", "E", "-", "7", "9", ",", " ", "C", "W", "E", "-", "8", "9">>),
        Text(<<" ", "K", "n", "o", "w", "n">>)),
    Row(Text(<<"2", "0", "2", "3", "-", "0", "2", "-", "0", "1">>), Text(Globex),
        NaN, Text(<<"U", "n", "k", "n", "o", "w", "n">>)),
    Row(Text(<<"2", "0", "2", "4", "-", "0", "1", "-", "0", "9">>), Text(Globex),
        Text(<<"C", "W", "E", "-", "7", "9", ",", "C", "W", "E", "-", "8", "9">>),
        Text(<<"K", "N", "O", "W", "N", "\t">>)),
    Row(Text(<<"T", "B", "D">>), Text(Initech),
        Text(<<"C", "W", "E", "-", "2", "2">>), Text(<<"k", "n", "o", "w", "n">>)),
    Row(Text(<<"2", "0", "2", "3", "-", "0", "2", "-", "1", "1">>), Text(Acme),
        Text(<<"C", "W", "E", "-", "8", "9", ",">>), Text(<<"k", "n", "o", " ", "w", "n">>))
>>

NKinds == Len(Catalogue)

\* Every feed of at most MaxRows rows.
Feeds == UNION {[1..n -> Range(Catalogue)] : n \in 0..MaxRows}

\* MaxRows consecutive rows of the catalogue: the feeds of the concurrent runs.
Windows == {[i \in 1..MaxRows |-> Catalogue[((k + i - 2) % NKinds) + 1]] : k \in 1..NKinds}

(***************************************************************************)
(* Load and preprocess (lines 7-12).                                       *)
(***************************************************************************)
NaT == [nat |-> TRUE, year |-> 0, month |-> 0, day |-> 0]

Digit(c) == Ord(c) - Ord("0")

IsLeap(y) == (y % 4 = 0 /\ y % 100 # 0) \/ y % 400 = 0

DaysIn(y, m) ==
    IF m = 2 THEN (IF IsLeap(y) THEN 29 ELSE 28)
    ELSE IF m \in {4, 6, 9, 11} THEN 30 ELSE 31

\* pd.to_datetime(x, errors='coerce') on one cell of a feed whose dates are written
\* YYYY-MM-DD: a text of that form naming a real day becomes a timestamp; a missing
\* cell and a text that is no date become NaT.
to_datetime(x) ==
    IF x.na \/ Len(x.s) # 10 THEN NaT
    ELSE LET s == x.s IN
         IF ~(/\ \A i \in {1, 2, 3, 4, 6, 7, 9, 10} : IsDigit(s[i])
              /\ s[5] = "-" /\ s[8] = "-") THEN NaT
         ELSE LET y == Digit(s[1]) * 1000 + Digit(s[2]) * 100 + Digit(s[3]) * 10 + Digit(s[4])
                  m == Digit(s[6]) * 10 + Digit(s[7])
                  d == Digit(s[9]) * 10 + Digit(s[10])
              IN IF m >= 1 /\ m <= 12 /\ d >= 1 /\ d <= DaysIn(y, m)
                 THEN [nat |-> FALSE, year |-> y, month |-> m, day |-> d]
                 ELSE NaT

\* Line 8: the dateAdded column parsed; every row keeps its index label (0-based).
ParseDates(c) ==
    [i \in 1..Len(c) |->
        [idx |-> i - 1,
         dateAdded |-> to_datetime(c[i].dateAdded),
         vendorProject |-> c[i].vendorProject,
         cwes |-> c[i].cwes,
         knownRansomwareCampaignUse |-> c[i].knownRansomwareCampaignUse]]

HasDate(r) == ~r.dateAdded.nat

\* Line 9: df.dropna(subset=['dateAdded'])
dropna(d) == SelectSeq(d, HasDate)

\* Line 12 without .str.lower()
NormalizeNoLower(x) == Strip(Str(x))

\* Line 12 on one cell: .astype(str).str.strip().str.lower()
Normalize(x) == Lower(Strip(Str(x)))

NormalizeColumn(d) ==
    [i \in 1..Len(d) |->
        [d[i] EXCEPT !.knownRansomwareCampaignUse = Normalize(d[i].knownRansomwareCampaignUse)]]

\* A DataFrame: its rows, and whether it has its columns.  A frame with rows has them.
Frame(rows) == [columns |-> TRUE, rows |-> rows]

\* The frame without rows and without columns.
NoColumns == [columns |-> FALSE, rows |-> <<>>]

\* Lines 7-12: the module-level df.
LoadDf(c) == Frame(NormalizeColumn(dropna(ParseDates(c))))

(***************************************************************************)
(* Extract filters (lines 15-18) and the dropdown options (lines 33-54).   *)
(***************************************************************************)
\* Line 15
YearsOf(d) == SortedInt({d.rows[i].dateAdded.year : i \in 1..Len(d.rows)})

\* Line 16
VendorsOf(d) ==
    SortedStr({d.rows[i].vendorProject.s :
                  i \in {j \in 1..Len(d.rows) : ~d.rows[j].vendorProject.na}})

\* Line 17: every piece of every present cwes text, split on commas, unstripped.
CweTokens(d) ==
    UNION {Range(Split(Str(d.rows[i].cwes))) : i \in {j \in 1..Len(d.rows) : ~d.rows[j].cwes.na}}

CwesOf(d) == SortedStr(CweTokens(d))

\* Line 18
ransomware_options == <<"All", "Known", "Unknown">>

\* Line 33: the values of the year dropdown.
YearOptions == Range(years)

\* Line 40: the values of the vendor dropdown.
VendorOptions == Range(vendors)

\* Line 47: the values of the CWE dropdown, each token stripped.
CweOptions == {Strip(cwes[i]) : i \in 1..Len(cwes)}

(***************************************************************************)
(* update_graph (lines 80-108), statement by statement.  A selection is    *)
(* modelled as a set: isin and any() ignore order and repetition, and an   *)
(* empty set stands for both None and [] (both are falsy).                 *)
(***************************************************************************)
known == <<"k", "n", "o", "w", "n">>

\* Line 81: df.copy()
copy(d) == d

\* Line 84: filtered_df['dateAdded'].dt.year.isin(selected_years), on one row.
YearKeep(r, selected_years) == r.dateAdded.year \in selected_years

\* Line 86: filtered_df['vendorProject'].isin(selected_vendors), on one row.
VendorKeep(r, selected_vendors) ==
    ~r.vendorProject.na /\ r.vendorProject.s \in selected_vendors

\* The CWE mask as an equality test on the whole text.
CweKeepEqual(r, selected_cwes) == \E cwe \in selected_cwes : Str(r.cwes) = cwe

\* Line 88: any(cwe in str(x) for cwe in selected_cwes), on one row.
CweKeep(r, selected_cwes) == \E cwe \in selected_cwes : Contains(Str(r.cwes), cwe)

\* The ransomware mask with 'Unknown' taken as a literal value of the column.
RansomKeepLiteral(r, ransomware_filter) ==
    IF ransomware_filter = "Known" THEN r.knownRansomwareCampaignUse = known
    ELSE IF ransomware_filter = "Unknown"
         THEN r.knownRansomwareCampaignUse = <<"u", "n">> \o known
    ELSE TRUE

\* Lines 90-93: the mask of the ransomware filter on one row.
RansomKeep(r, ransomware_filter) ==
    IF ransomware_filter = "Known" THEN r.knownRansomwareCampaignUse = known
    ELSE IF ransomware_filter = "Unknown" THEN r.knownRansomwareCampaignUse # known
    ELSE TRUE

\* Lines 83-84.  The mask of isin is a bool Series, also on a frame without rows:
\* the frame keeps its columns.  (The frame has its columns here: it is the copy of
\* df, filtered by bool masks at most.)
YearStep(f, a) ==
    IF a.selected_years # {}
    THEN LET Keep(r) == YearKeep(r, a.selected_years) IN Frame(SelectSeq(f.rows, Keep))
    ELSE f

\* Lines 85-86.  As for the years: a bool mask.
VendorStep(f, a) ==
    IF a.selected_vendors # {}
    THEN LET Keep(r) == VendorKeep(r, a.selected_vendors) IN Frame(SelectSeq(f.rows, Keep))
    ELSE f

\* Lines 87-88.  On a frame with rows, apply gives a bool mask.  On a frame without
\* rows, apply gives an empty Series of the column's dtype, which is no bool indexer:
\* filtered_df[...] takes it as a list of column labels, an empty one, and the frame
\* that results has no columns.
CweStep(f, a) ==
    IF a.selected_cwes # {}
    THEN IF f.rows = <<>>
         THEN NoColumns
         ELSE LET Keep(r) == CweKeep(r, a.selected_cwes) IN Frame(SelectSeq(f.rows, Keep))
    ELSE f

\* Lines 91 and 93 look up the column 'knownRansomwareCampaignUse' of filtered_df:
\* a KeyError when the frame has no columns.
RansomRaises(f, a) == a.ransomware_filter \in {"Known", "Unknown"} /\ ~f.columns

\* Lines 90-93.  When the lookup raises, no assignment happens: the frame stays.
RansomStep(f, a) ==
    IF a.ransomware_filter \in {"Known", "Unknown"} /\ ~RansomRaises(f, a)
    THEN LET Keep(r) == RansomKeep(r, a.ransomware_filter) IN Frame(SelectSeq(f.rows, Keep))
    ELSE f

\* Grouping by dt.month: the month of the year, the year dropped.
to_period_month(ts) == [year |-> 1970, month |-> ts.month]

\* dt.to_period('M') of a timestamp.
to_period(ts) == [year |-> ts.year, month |-> ts.month]

\* The order of periods (their ordinal).
PeriodOrd(p) == p.year * 12 + (p.month - 1)

\* The group keys in the order groupby emits them (sort=True): ascending.
RECURSIVE SortedPeriods(_)
SortedPeriods(S) ==
    IF S = {} THEN <<>>
    ELSE LET m == CHOOSE x \in S : \A y \in S : PeriodOrd(x) <= PeriodOrd(y)
         IN <<m>> \o SortedPeriods(S \ {m})

\* Lines 98-99: groupby(period).size(), then the period as the timestamp of its first day.
monthly_counts(f) ==
    LET keys == SortedPeriods({to_period(f.rows[i].dateAdded) : i \in 1..Len(f.rows)})
    IN [k \in 1..Len(keys) |->
           [dateAdded |-> [nat |-> FALSE, year |-> keys[k].year,
                           month |-> keys[k].month, day |-> 1],
            cve_count |->
                Cardinality({i \in 1..Len(f.rows) : to_period(f.rows[i].dateAdded) = keys[k]})]]

\* Lines 95-96: the placeholder figure, a plot of nothing.
NoDataFigure ==
    [raised |-> FALSE, title |-> "No data matches the selected filters.", data |-> <<>>]

\* Lines 101-108: the line chart of monthly_counts.
LineFigure(f) ==
    [raised |-> FALSE, title |-> "Monthly Count of Exploited CVEs", data |-> monthly_counts(f)]

\* Lines 91 and 93: the call ends with the exception and returns no figure.
KeyError == [raised |-> TRUE, title |-> "KeyError: 'knownRansomwareCampaignUse'", data |-> <<>>]

\* Line 95: filtered_df.empty, true of a frame without rows (with or without columns).
empty(f) == f.rows = <<>>

\* Lines 95-108
Figure(f) == IF empty(f) THEN NoDataFigure ELSE LineFigure(f)

\* Lines 80-108 run from top to bottom on the frame d.
update_graph(d, a) ==
    LET f == CweStep(VendorStep(YearStep(copy(d), a), a), a)
    IN IF RansomRaises(f, a) THEN KeyError ELSE Figure(RansomStep(f, a))

\* The filter statements with the name declared global: each rebinds the module's frame.
ModuleDfRebound(d, local) == local

\* Lines 81-93 assign the name filtered_df, which is local to the call: the module-level
\* df stays bound to the frame d it was bound to.
ModuleDf(d, local) == d

\* filtered_df as one name shared by all calls.
LocalShared(fd, t) == fd[1]

\* filtered_df as the call of thread t reads it: its own frame's local variable.
Local(fd, t) == fd[t]

(***************************************************************************)
(* The selections the callback is called with.                             *)
(***************************************************************************)
Args(y, v, c, r) ==
    [selected_years |-> y, selected_vendors |-> v, selected_cwes |-> c, ransomware_filter |-> r]

NoArgs == Args({}, {}, {}, "All")

YearChoices == {{}, {2023}, {2024}}

VendorChoices == {{}, {Acme}, {Acme, Globex}}

Frag7 == <<"C", "W", "E", "-", "7">>
Frag9 == <<"C", "W", "E", "-", "9">>
FragNan == <<"n", "a", "n">>

CweChoices == {{}, {Frag7}, {Frag9}, {FragNan}, {Frag7, Frag9}}

Modes == Range(ransomware_options)

\* One option picked in one dropdown, the rest of the controls untouched.
SingleOption ==
    {Args({y}, {}, {}, "All") : y \in YearOptions}
    \cup {Args({}, {v}, {}, "All") : v \in VendorOptions}
    \cup {Args({}, {}, {c}, "All") : c \in CweOptions}

Selections ==
    {Args(y, v, c, r) : y \in YearChoices, v \in VendorChoices, c \in CweChoices, r \in Modes}
    \cup SingleOption

\* The selections of the concurrent runs.
ConcSelections ==
    {NoArgs,
     Args({2023}, {}, {}, "Known"),
     Args({}, {Acme}, {}, "Unknown"),
     Args({}, {}, {Frag7}, "All"),
     Args({2024}, {Acme, Globex}, {Frag7, Frag9}, "Known"),
     Args({}, {}, {FragNan}, "Unknown")}

(***************************************************************************)
(* The state machine.  Dash serves callbacks from a threaded server: the   *)
(* statements of calls in flight interleave.  In the sequential runs       *)
(* (concurrent = FALSE) one worker serves the calls one after the other.   *)
(***************************************************************************)
TypeInit ==
    /\ df = LoadDf(csv)
    /\ years = YearsOf(df)
    /\ vendors = VendorsOf(df)
    /\ cwes = CwesOf(df)
    /\ pc = [t \in Threads |-> "idle"]
    /\ args = [t \in Threads |-> NoArgs]
    /\ filtered_df = [t \in Threads |-> Frame(<<>>)]
    /\ result = [t \in Threads |-> NoDataFigure]

Init == csv \in Feeds /\ concurrent = FALSE /\ TypeInit

InitConc == csv \in Windows /\ concurrent = TRUE /\ TypeInit

\* Lines 80-81: the callback starts with the selection a.
Call(t) ==
    /\ pc[t] = "idle"
    /\ concurrent \/ t = 1
    /\ \E a \in (IF concurrent THEN ConcSelections ELSE Selections) :
          args' = [args EXCEPT ![t] = a]
    /\ filtered_df' = [filtered_df EXCEPT ![t] = copy(df)]
    /\ pc' = [pc EXCEPT ![t] = "years"]
    /\ UNCHANGED <<csv, df, years, vendors, cwes, concurrent, result>>

\* One filter statement of thread t.
FilterAt(t, at, next, new) ==
    /\ pc[t] = at
    /\ filtered_df' = [filtered_df EXCEPT ![t] = new]
    /\ df' = ModuleDf(df, new)
    /\ pc' = [pc EXCEPT ![t] = next]
    /\ UNCHANGED <<csv, years, vendors, cwes, concurrent, args, result>>

\* Lines 83-84
FilterYears(t) == FilterAt(t, "years", "vendors", YearStep(Local(filtered_df, t), args[t]))

\* Lines 85-86
FilterVendors(t) == FilterAt(t, "vendors", "cwes", VendorStep(Local(filtered_df, t), args[t]))

\* Lines 87-88
FilterCwes(t) == FilterAt(t, "cwes", "ransomware", CweStep(Local(filtered_df, t), args[t]))

\* Lines 90-93, the column found (or mode All: no statement runs).
FilterRansomware(t) ==
    /\ ~RansomRaises(Local(filtered_df, t), args[t])
    /\ FilterAt(t, "ransomware", "empty", RansomStep(Local(filtered_df, t), args[t]))

\* Line 91 or 93 on a frame without columns: the call ends with a KeyError.
RaiseKeyError(t) ==
    /\ pc[t] = "ransomware"
    /\ RansomRaises(Local(filtered_df, t), args[t])
    /\ result' = [result EXCEPT ![t] = KeyError]
    /\ pc' = [pc EXCEPT ![t] = "error"]
    /\ UNCHANGED <<csv, df, years, vendors, cwes, concurrent, args, filtered_df>>

\* Lines 95-96
ReturnNoData(t) ==
    /\ pc[t] = "empty"
    /\ empty(Local(filtered_df, t))
    /\ result' = [result EXCEPT ![t] = NoDataFigure]
    /\ pc' = [pc EXCEPT ![t] = "done"]
    /\ UNCHANGED <<csv, df, years, vendors, cwes, concurrent, args, filtered_df>>

\* Lines 98-108
ReturnFigure(t) ==
    /\ pc[t] = "empty"
    /\ ~empty(Local(filtered_df, t))
    /\ result' = [result EXCEPT ![t] = LineFigure(Local(filtered_df, t))]
    /\ pc' = [pc EXCEPT ![t] = "done"]
    /\ UNCHANGED <<csv, df, years, vendors, cwes, concurrent, args, filtered_df>>

\* The figure, or the error, is handed to the browser and the call frame is gone.
Respond(t) ==
    /\ pc[t] \in {"done", "error"}
    /\ pc' = [pc EXCEPT ![t] = "idle"]
    /\ args' = [args EXCEPT ![t] = NoArgs]
    /\ filtered_df' = [filtered_df EXCEPT ![t] = Frame(<<>>)]
    /\ result' = [result EXCEPT ![t] = NoDataFigure]
    /\ UNCHANGED <<csv, df, years, vendors, cwes, concurrent>>

Next ==
    \E t \in Threads :
        \/ Call(t)
        \/ FilterYears(t)
        \/ FilterVendors(t)
        \/ FilterCwes(t)
        \/ FilterRansomware(t)
        \/ RaiseKeyError(t)
        \/ ReturnNoData(t)
        \/ ReturnFigure(t)
        \/ Respond(t)

Spec == Init /\ [][Next]_vars

SpecConc == InitConc /\ [][Next]_vars

(***************************************************************************)
(* What the claims speak of, stated on the data and not through the code.  *)
(***************************************************************************)
\* frag occurs in text as a contiguous run of characters.
Occurs(frag, text) ==
    \E k \in 0..(Len(text) - Len(frag)) : \A j \in 1..Len(frag) : text[k + j] = frag[j]

\* The raw cwes text of a record: a record without identifiers has the empty text.
RawText(x) == IF x.na THEN <<>> ELSE x.s

\* The four filter predicates of a selection on a record of the dataset.
SatYears(r, a) == a.selected_years = {} \/ r.dateAdded.year \in a.selected_years

SatVendors(r, a) ==
    a.selected_vendors = {} \/ (~r.vendorProject.na /\ r.vendorProject.s \in a.selected_vendors)

SatCwes(r, a) ==
    a.selected_cwes = {} \/ \E frag \in a.selected_cwes : Occurs(frag, RawText(r.cwes))

SatMode(r, a) ==
    CASE a.ransomware_filter = "Known" -> r.knownRansomwareCampaignUse = known
      [] a.ransomware_filter = "Unknown" -> r.knownRansomwareCampaignUse # known
      [] OTHER -> TRUE

\* The records of the dataset d (their positions) that satisfy the whole selection.
Satisfying(d, a) ==
    {i \in 1..Len(d.rows) :
        /\ SatYears(d.rows[i], a) /\ SatVendors(d.rows[i], a)
        /\ SatCwes(d.rows[i], a) /\ SatMode(d.rows[i], a)}

RECURSIVE SumCounts(_)
SumCounts(data) == IF data = <<>> THEN 0 ELSE Head(data).cve_count + SumCounts(Tail(data))

\* The count a series gives for the month p: 0 when it has no entry for it.
CountAt(data, p) ==
    SumCounts(SelectSeq(data, LAMBDA e : to_period(e.dateAdded) = p))

\* The index labels of the rows of a frame.
Idx(f) == {f.rows[i].idx : i \in 1..Len(f.rows)}

Mode(a, m) == [a EXCEPT !.ransomware_filter = m]

\* The frame a call run alone holds after each of its filter statements (after lines
\* 90-93: the frame it holds once they have run, or have raised).
AloneYears(d, a) == YearStep(copy(d), a)
AloneVendors(d, a) == VendorStep(AloneYears(d, a), a)
AloneCwes(d, a) == CweStep(AloneVendors(d, a), a)
AloneRansom(d, a) == RansomStep(AloneCwes(d, a), a)

\* The raw text differs from "known" by letter case and surrounding whitespace only.
KNOWN == <<"K", "N", "O", "W", "N">>

RawIsKnown(x) ==
    /\ ~x.na
    /\ \E i \in 1..Len(x.s) :
          /\ i + 4 <= Len(x.s)
          /\ \A j \in 1..5 : x.s[i + j - 1] \in {known[j], KNOWN[j]}
          /\ \A j \in 1..Len(x.s) : (j < i \/ j > i + 4) => IsSpace(x.s[j])

\* The raw row of the feed a record of the dataset was loaded from.
RawOf(r) == csv[r.idx + 1]

(***************************************************************************)
(* The claims.                                                             *)
(***************************************************************************)
\* The call of thread t has returned a figure.
Done(t) == pc[t] = "done"

\* The call of thread t is over: it has returned a figure or raised.
Ended(t) == pc[t] \in {"done", "error"}

\* C1: every call returns a series, and its counts sum to the number of dataset
\* records that satisfy every active filter predicate of the selection (year, vendor,
\* CWE fragment in the raw cwes text, ransomware mode).
C1_SumIsSatisfying ==
    \A t \in Threads :
        Ended(t) =>
            /\ ~result[t].raised
            /\ SumCounts(result[t].data) = Cardinality(Satisfying(df, args[t]))

\* C2: for fixed years, vendors and cwes, the calls with modes All, Known and Unknown
\* each return a series; Known and Unknown keep disjoint sets of records whose union
\* is what All keeps, and month by month their counts add up to the count of All.
C2_KnownUnknownPartition ==
    \A t \in Threads :
        Ended(t) =>
            LET a == args[t]
                A == update_graph(df, Mode(a, "All"))
                K == update_graph(df, Mode(a, "Known"))
                U == update_graph(df, Mode(a, "Unknown"))
                keptA == Idx(AloneRansom(df, Mode(a, "All")))
                keptK == Idx(AloneRansom(df, Mode(a, "Known")))
                keptU == Idx(AloneRansom(df, Mode(a, "Unknown")))
            IN /\ result[t] = update_graph(df, a)
               /\ ~A.raised /\ ~K.raised /\ ~U.raised
               /\ keptK \cap keptU = {}
               /\ keptK \cup keptU = keptA
               /\ \A i \in 1..Len(df.rows) :
                     LET p == to_period(df.rows[i].dateAdded)
                     IN CountAt(K.data, p) + CountAt(U.data, p) = CountAt(A.data, p)

\* C3: the returned series is strictly ascending by month, has exactly one entry for
\* every month in which a kept record falls, and has no entry for any other month
\* (no entry has count zero).
C3_SeriesShape ==
    \A t \in Threads :
        Done(t) =>
            LET data == result[t].data
                kept == filtered_df[t].rows
                month(e) == [year |-> e.dateAdded.year, month |-> e.dateAdded.month]
            IN /\ \A i, j \in 1..Len(data) :
                     i < j => (\/ data[i].dateAdded.year < data[j].dateAdded.year
                               \/ /\ data[i].dateAdded.year = data[j].dateAdded.year
                                  /\ data[i].dateAdded.month < data[j].dateAdded.month)
               /\ \A i \in 1..Len(kept) :
                     Cardinality({k \in 1..Len(data) : month(data[k]) = month(kept[i])}) = 1
               /\ \A k \in 1..Len(data) :
                     /\ data[k].cve_count > 0
                     /\ data[k].cve_count =
                            Cardinality({i \in 1..Len(kept) : month(kept[i]) = month(data[k])})

C3_Witness ==
    \E t \in Threads :
        /\ Done(t)
        /\ args[t].selected_vendors # {}
        /\ Len(result[t].data) >= 2
        /\ PeriodOrd(to_period(filtered_df[t].rows[1].dateAdded))
               > PeriodOrd(to_period(filtered_df[t].rows[2].dateAdded))

\* C4: with a non-empty CWE selection a record passes the CWE filter exactly when one
\* of the selected fragments occurs contiguously in its raw cwes text.
C4_SubstringOfRawText ==
    \A t \in Threads :
        (pc[t] = "ransomware" /\ args[t].selected_cwes # {}) =>
            LET before == AloneVendors(df, args[t]).rows
            IN Idx(filtered_df[t]) =
                   {before[i].idx : i \in {j \in 1..Len(before) :
                        \E frag \in args[t].selected_cwes : Occurs(frag, RawText(before[j].cwes))}}

\* C5: the module-level dataset is what the load produced, whatever calls have run,
\* and a call ends as its selection ends on the dataset as loaded, every time.
C5_DatasetImmutable ==
    /\ df = LoadDf(csv)
    /\ \A t \in Threads : Ended(t) => result[t] = update_graph(LoadDf(csv), args[t])

C5_Witness ==
    \E t \in Threads :
        /\ Done(t)
        /\ filtered_df[t].rows # <<>>
        /\ Len(filtered_df[t].rows) < Len(df.rows)

\* C6: with calls interleaved, every call holds at each of its statements the frame it
\* would hold there running alone, and ends as it would end alone.
C6_Isolation ==
    \A t \in Threads :
        /\ pc[t] = "years" => filtered_df[t] = copy(df)
        /\ pc[t] = "vendors" => filtered_df[t] = AloneYears(df, args[t])
        /\ pc[t] = "cwes" => filtered_df[t] = AloneVendors(df, args[t])
        /\ pc[t] = "ransomware" => filtered_df[t] = AloneCwes(df, args[t])
        /\ pc[t] \in {"empty", "done", "error"} => filtered_df[t] = AloneRansom(df, args[t])
        /\ pc[t] = "done" => result[t] = Figure(AloneRansom(df, args[t]))
        /\ pc[t] = "error" => RansomRaises(AloneCwes(df, args[t]), args[t])

C6_Witness ==
    \E t, u \in Threads :
        /\ t # u
        /\ Done(t)
        /\ pc[u] \in {"vendors", "cwes", "ransomware"}
        /\ args[t] # args[u]
        /\ filtered_df[t] # filtered_df[u]
        /\ result[t].data # <<>>

\* C7: mode Known keeps exactly the records whose raw ransomware text is "known" up
\* to letter case and surrounding whitespace; mode Unknown keeps exactly the others,
\* a missing value among them.
C7_RansomwareNormalized ==
    \A t \in Threads :
        Done(t) =>
            LET before == AloneCwes(df, args[t]).rows
                isKnown == {before[i].idx : i \in {j \in 1..Len(before) :
                                RawIsKnown(RawOf(before[j]).knownRansomwareCampaignUse)}}
            IN /\ args[t].ransomware_filter = "Known" => Idx(filtered_df[t]) = isKnown
               /\ args[t].ransomware_filter = "Unknown" =>
                      Idx(filtered_df[t]) = {before[i].idx : i \in 1..Len(before)} \ isKnown

C7_Witness ==
    \E t \in Threads :
        /\ Done(t)
        /\ args[t].ransomware_filter = "Known"
        /\ \E i \in 1..Len(filtered_df[t].rows) :
              RawOf(filtered_df[t].rows[i]).knownRansomwareCampaignUse # Text(known)
        /\ \E i \in 1..Len(df.rows) :
              /\ RawOf(df.rows[i]).knownRansomwareCampaignUse.na
              /\ df.rows[i].idx \notin Idx(filtered_df[t])

\* C8: a call never ends with an error: every statement it reaches can run and it ends
\* with a figure; and when no record of the dataset satisfies the selection the figure
\* is the placeholder with the empty series.
C8_EmptyWhenNothingSatisfies ==
    \A t \in Threads :
        /\ pc[t] # "error"
        /\ pc[t] # "idle" => ENABLED (FilterYears(t) \/ FilterVendors(t) \/ FilterCwes(t)
                                      \/ FilterRansomware(t) \/ ReturnNoData(t)
                                      \/ ReturnFigure(t) \/ Respond(t))
        /\ (Done(t) /\ Satisfying(df, args[t]) = {}) => result[t] = NoDataFigure

\* C9: an option offered by a dropdown, selected alone with mode All, gives a series
\* that is not empty.
C9_OptionsMatch ==
    \A t \in Threads :
        (Ended(t) /\ args[t] \in SingleOption) => (~result[t].raised /\ result[t].data # <<>>)

C9_Witness ==
    \E t \in Threads :
        /\ Done(t)
        /\ args[t] \in SingleOption
        /\ \E c \in args[t].selected_cwes : c \notin Range(cwes)

\* C10: a record without the field a filter tests never passes that filter: none
\* without vendorProject passes a non-empty vendor selection, none without cwes passes
\* a non-empty CWE selection.
C10_AbsentFieldExcluded ==
    \A t \in Threads :
        /\ (pc[t] = "cwes" /\ args[t].selected_vendors # {}) =>
               \A i \in 1..Len(filtered_df[t].rows) : ~filtered_df[t].rows[i].vendorProject.na
        /\ (pc[t] = "ransomware" /\ args[t].selected_cwes # {}) =>
               \A i \in 1..Len(filtered_df[t].rows) : ~filtered_df[t].rows[i].cwes.na

=============================================================================
